---- MODULE Spec2Model ----
(***************************************************************************)
(* A model of the DAS Monte Carlo business simulator                       *)
(* (monte_carlo_simulator/das_monte_carlo.py): the trial engine            *)
(* run_single_simulation, the driver run_monte_carlo, the cost and demand  *)
(* models they call and the process-wide numpy generator they draw from.   *)
(*                                                                         *)
(* Fixed point.  Money is in whole dollars; probabilities, accuracy and    *)
(* uptime are in thousandths (permille); multiplicative variations and the *)
(* team growth rate are in hundredths (percent); the deployment lead time  *)
(* is in tenths of a month.  Python's int() truncates toward zero: Trunc.  *)
(*                                                                         *)
(* Random generator.  numpy's global generator is a deterministic function *)
(* of the seed and of the number of draws made since seeding.  The model   *)
(* keeps it as a position rng on a cyclic tape of TapeLen cells that is    *)
(* chosen arbitrarily in Init and never changes: seeding with s puts the   *)
(* position at s mod TapeLen, every draw reads the cell under the position *)
(* and advances it by one.  A cell holds a level 0..2 that each            *)
(* distribution maps into its own support (Normal, Binomial).              *)
(***************************************************************************)
EXTENDS Integers, Sequences, FiniteSets, TLC

\* ------------------------------------------------------------------ bounds

\* Trials per invocation of run_monte_carlo (num_simulations).
NumSims == 2
\* Length of the longest horizon run with interleaved trials.
ParMonths == 3
\* Cells of the generator's tape.
TapeLen == 3
\* Trials of the longest batch analysed, and recorded months of its longest
\* trial.
MaxBatch == 2
MaxTrialLen == 2

Levels == {0, 1, 2}
Trials == 0 .. (NumSims - 1)
\* Invocations of run_monte_carlo made on one simulator.
Invocations == {1, 2}

\* ----------------------------------------------------------------- helpers

Max(a, b) == IF a >= b THEN a ELSE b
Min(a, b) == IF a <= b THEN a ELSE b

\* Python's int(a / b) for b > 0: truncation toward zero.
Trunc(a, b) == IF a >= 0 THEN a \div b ELSE -((-a) \div b)

\* floor(a * b / c) for a, b >= 0 and c > 0 without forming a * b.
MulDiv(a, b, c) == (a \div c) * b + ((a % c) * b) \div c

RECURSIVE SumSeq(_)
SumSeq(s) == IF s = <<>> THEN 0 ELSE Head(s) + SumSeq(Tail(s))

Last(s) == s[Len(s)]

\* ----------------------------------------------------------- configuration

Segments == <<"port", "naval", "environmental", "shipping", "insurance">>
SegmentSet == {Segments[k] : k \in 1 .. Len(Segments)}

DefaultInputs ==
  [ architecture_option    |-> "C",
    series_a_funding       |-> 10000000,
    initial_cables         |-> 3,
    target_cables_month_6  |-> 5,
    target_cables_month_12 |-> 15,
    target_cables_month_18 |-> 30,
    pricing_port           |-> 35000,
    pricing_naval          |-> 500000,
    pricing_environmental  |-> 10000,
    pricing_shipping       |-> 10000,
    pricing_insurance      |-> 25000,
    initial_team_size      |-> 5,
    team_growth_rate       |-> 150,
    cloud_credits_secured  |-> 250000,
    simulation_months      |-> 24 ]

DefaultParams ==
  [ detection_accuracy_mean          |-> 970,
    detection_accuracy_std           |-> 20,
    conversion_rate_port_mean        |-> 250,
    conversion_rate_port_std         |-> 100,
    conversion_rate_naval_mean       |-> 150,
    conversion_rate_naval_std        |-> 50,
    churn_rate_monthly_mean          |-> 20,
    churn_rate_monthly_std           |-> 10,
    edge_capex_variation             |-> 15,
    salary_variation                 |-> 20,
    cable_deployment_time_months_mean |-> 20,
    cable_deployment_time_months_std |-> 5,
    system_uptime_mean               |-> 995,
    system_uptime_std                |-> 5,
    competitive_pressure_annual      |-> 10 ]

\* The campaigns explored: [inputs, params] pairs passed to the constructor.
Scenarios ==
  { \* the defaults of the two dataclasses
    [inputs |-> DefaultInputs, params |-> DefaultParams],
    \* the "base_case" flavour: regional datacenter, short horizon, thin funding
    [inputs |-> [DefaultInputs EXCEPT !.architecture_option = "B",
                                      !.initial_cables = 7,
                                      !.target_cables_month_6 = 9,
                                      !.series_a_funding = 4000000,
                                      !.simulation_months = 8],
     params |-> DefaultParams],
    \* regional datacenter with the threshold of 8 cables met from the start
    [inputs |-> [DefaultInputs EXCEPT !.architecture_option = "B",
                                      !.initial_cables = 8,
                                      !.target_cables_month_6 = 8,
                                      !.simulation_months = 3],
     params |-> DefaultParams],
    \* GPU at the edge, funding that barely covers the initial capex
    [inputs |-> [DefaultInputs EXCEPT !.architecture_option = "A",
                                      !.series_a_funding = 2000000,
                                      !.simulation_months = 3],
     params |-> DefaultParams],
    \* a wide lead-time distribution, the first planning in month 12
    [inputs |-> [DefaultInputs EXCEPT !.initial_cables = 1,
                                      !.target_cables_month_6 = 1,
                                      !.target_cables_month_12 = 3,
                                      !.simulation_months = 13],
     params |-> [DefaultParams EXCEPT !.cable_deployment_time_months_std = 20]],
    \* lead times of 0, 1 and 2 months
    [inputs |-> [DefaultInputs EXCEPT !.initial_cables = 1,
                                      !.target_cables_month_6 = 3,
                                      !.simulation_months = 8],
     params |-> [DefaultParams EXCEPT !.cable_deployment_time_months_mean = 10]],
    \* a checkpoint target below the one before it
    [inputs |-> [DefaultInputs EXCEPT !.target_cables_month_6 = 5,
                                      !.target_cables_month_12 = 4,
                                      !.simulation_months = 13],
     params |-> DefaultParams],
    \* zero growth: the targets are the initial cables, the team multiplier is
    \* 0 or 1
    [inputs |-> [DefaultInputs EXCEPT !.target_cables_month_6 = 3,
                                      !.target_cables_month_12 = 3,
                                      !.target_cables_month_18 = 3,
                                      !.team_growth_rate = 0,
                                      !.simulation_months = 7],
     params |-> DefaultParams],
    [inputs |-> [DefaultInputs EXCEPT !.target_cables_month_6 = 3,
                                      !.target_cables_month_12 = 3,
                                      !.target_cables_month_18 = 3,
                                      !.team_growth_rate = 100,
                                      !.simulation_months = 7],
     params |-> DefaultParams],
    \* funding around the initial capex of 1,050,000 to 1,950,000
    [inputs |-> [DefaultInputs EXCEPT !.architecture_option = "A",
                                      !.series_a_funding = 1500000,
                                      !.simulation_months = 3],
     params |-> DefaultParams],
    \* the lowest costs the inputs allow: nobody on the team
    [inputs |-> [DefaultInputs EXCEPT !.initial_team_size = 0,
                                      !.simulation_months = 3],
     params |-> DefaultParams],
    \* a port conversion rate the API lets a caller set close to 1
    [inputs |-> [DefaultInputs EXCEPT !.simulation_months = 3],
     params |-> [DefaultParams EXCEPT !.conversion_rate_port_mean = 900]],
    \* wide technical-performance and churn distributions
    [inputs |-> [DefaultInputs EXCEPT !.simulation_months = 4],
     params |-> [DefaultParams EXCEPT !.detection_accuracy_mean = 900,
                                      !.detection_accuracy_std = 100,
                                      !.system_uptime_mean = 950,
                                      !.system_uptime_std = 40,
                                      !.churn_rate_monthly_mean = 60,
                                      !.churn_rate_monthly_std = 40]],
    \* configurations outside the data model's invariant
    [inputs |-> [DefaultInputs EXCEPT !.simulation_months = -1],
     params |-> DefaultParams],
    [inputs |-> [DefaultInputs EXCEPT !.pricing_port = -35000,
                                      !.simulation_months = 5],
     params |-> DefaultParams] }

VARIABLES
  inputs,    \* self.inputs
  params,    \* self.params
  tape,      \* the generator's output function
  rng,       \* numpy's process-wide generator state
  frames,    \* one run_single_simulation call frame per trial
  results,   \* run_monte_carlo's local list
  driver,    \* where run_monte_carlo is
  run,       \* invocations of run_monte_carlo started so far
  returned,  \* the lists returned by the finished invocations
  analysis   \* what analyze_results has returned for results

vars ==
  <<inputs, params, tape, rng, frames, results, driver, run, returned, analysis>>

\* ------------------------------------------------------------- generator

\* np.random.seed(seed): the state is a function of the seed alone.
SeedState(seed) == seed % TapeLen

\* The level the k-th draw made from state r reads (k = 0 is the next draw).
Draw(r, k) == tape[(r + k) % TapeLen]

\* The state after n draws from state r.
Advance(r, n) == (r + n) % TapeLen

\* A standard-normal deviate for a level: -2, 0 or +2 sigma.
ZScore(u) == 2 * u - 2

\* np.random.normal(mean, std) for the level u.
Normal(mean, std, u) == mean + std * ZScore(u)

\* np.random.binomial(n, p) rejects n < 0, p < 0 and p > 1 with ValueError.
BinomialRaises(n, p) == n < 0 \/ p < 0 \/ p > 1000

\* np.random.binomial(n, p) for the level u, p in permille: a value of the
\* distribution's support (0, about the mean, n).
Binomial(n, p, u) ==
  IF p = 0 THEN 0
  ELSE IF p = 1000 THEN n
  ELSE IF u = 0 THEN 0
  ELSE IF u = 1 THEN (n * p) \div 1000
  ELSE n

\* ------------------------------------------------------------- cost model

\* get_architecture_costs: the nominal capital cost of one cable's edge unit.
EdgeCapexNominal(arch) ==
  IF arch = "A" THEN 500000 ELSE IF arch = "B" THEN 350000 ELSE 250000

\* get_architecture_costs, first result: the nominal cost times a draw of
\* normal(1.0, edge_capex_variation).
EdgeCapexPerCable(arch, u) ==
  Trunc(EdgeCapexNominal(arch) * Normal(100, params.edge_capex_variation, u), 100)

EdgeOpexMonthly(arch) == IF arch = "A" THEN 10800 ELSE 2500

\* DatacenterOpexMonthly with the threshold above 8 cables, not at 8.
DatacenterOpexMonthly_Above8(arch, num_cables) ==
  IF arch = "B" /\ num_cables > 8 THEN 16700 ELSE 0

\* datacenter_opex_monthly = 16_700 if num_cables >= 8 else 0, option B only
DatacenterOpexMonthly(arch, num_cables) ==
  IF arch = "B" /\ num_cables >= 8 THEN 16700 ELSE 0

CloudOpexMonthly(arch, num_cables) ==
  IF arch \in {"A", "B"} THEN 4000 * num_cables ELSE 15000 * num_cables

\* get_architecture_costs, second result.
TotalOpexMonthly(arch, num_cables) ==
  EdgeOpexMonthly(arch) * num_cables
    + DatacenterOpexMonthly(arch, num_cables)
    + CloudOpexMonthly(arch, num_cables)

\* get_team_costs: the roles with their share of the team (percent) and
\* their annual salary, in the order of the roles dictionary.
Roles ==
  << [name |-> "signal_processing_ml", share |-> 25, salary |-> 200000],
     [name |-> "data_engineering",     share |-> 20, salary |-> 170000],
     [name |-> "cloud_devops",         share |-> 20, salary |-> 160000],
     [name |-> "edge_hardware",        share |-> 15, salary |-> 150000],
     [name |-> "product_engineering",  share |-> 20, salary |-> 165000] >>

\* int(team_size * share)
RoleCount(team_size, k) == Trunc(team_size * Roles[k].share, 100)

\* get_team_costs, second result.
TeamByRole(team_size) == [k \in 1 .. Len(Roles) |-> RoleCount(team_size, k)]

\* get_team_costs, first result: one salary draw per role, from state r.
TeamMonthlyCost(team_size, r) ==
  SumSeq([k \in 1 .. Len(Roles) |->
            Trunc(Trunc(Roles[k].salary
                          * Normal(100, params.salary_variation, Draw(r, k - 1)),
                        100), 12)
              * RoleCount(team_size, k)])

\* ----------------------------------------------------------- demand model

SegIndex(s) == CHOOSE k \in 1 .. Len(Segments) : Segments[k] = s

LeadsPerCable ==
  [port |-> 4, naval |-> 1, environmental |-> 3, shipping |-> 2, insurance |-> 2]

ConversionMean(s) ==
  CASE s = "port"          -> params.conversion_rate_port_mean
    [] s = "naval"         -> params.conversion_rate_naval_mean
    [] s = "environmental" -> 300
    [] s = "shipping"      -> 200
    [] s = "insurance"     -> 150

ConversionStd(s) ==
  CASE s = "port"          -> params.conversion_rate_port_std
    [] s = "naval"         -> params.conversion_rate_naval_std
    [] s = "environmental" -> 100
    [] s = "shipping"      -> 80
    [] s = "insurance"     -> 80

\* The conversion rate handed to the binomial draw of segment s: the k-th of
\* the five normal draws made from state r, clamped from below only.
ConversionRate(s, r) ==
  Max(0, Normal(ConversionMean(s), ConversionStd(s), Draw(r, SegIndex(s) - 1)))

\* SalesEffectiveness at full strength from the first month.
SalesEffectiveness_NoRamp(month) == 12

\* sales_effectiveness = min(1.0, month / 12), in twelfths.
SalesEffectiveness(month) == Min(12, month)

\* int(leads_per_cable * cables_deployed * sales_effectiveness)
TotalLeads(s, month, cables_deployed) ==
  Trunc(LeadsPerCable[s] * cables_deployed * SalesEffectiveness(month), 12)

\* The segments whose binomial draw in get_customer_acquisition raises.
AcquisitionRaising(month, cables_deployed, r) ==
  { s \in SegmentSet :
      BinomialRaises(TotalLeads(s, month, cables_deployed), ConversionRate(s, r)) }

\* get_customer_acquisition: five conversion draws, then one binomial draw per
\* segment in enumeration order.
GetCustomerAcquisition(month, cables_deployed, r) ==
  [s \in SegmentSet |->
     Binomial(TotalLeads(s, month, cables_deployed), ConversionRate(s, r),
              Draw(r, Len(Segments) + SegIndex(s) - 1))]

\* The arguments of the binomial calls of get_customer_acquisition, in order.
AcquisitionCalls(month, cables_deployed, r) ==
  [k \in 1 .. Len(Segments) |->
     [ site |-> "acquisition",
       n    |-> TotalLeads(Segments[k], month, cables_deployed),
       p    |-> ConversionRate(Segments[k], r) ]]

\* apply_churn: the month's churn rate, clamped on both sides.
ChurnRate(r) ==
  Max(0, Min(100, Normal(params.churn_rate_monthly_mean,
                         params.churn_rate_monthly_std, Draw(r, 0))))

\* ApplyChurn drawing each segment's churn on the whole customer base and
\* taking it off the segment without a floor.
ApplyChurn_WholeBase(customers, r) ==
  LET total == SumSeq([k \in 1 .. Len(Segments) |-> customers[Segments[k]]])
  IN  [s \in SegmentSet |->
         customers[s] - Binomial(total, ChurnRate(r), Draw(r, SegIndex(s)))]

\* apply_churn: one rate draw, then one binomial draw per segment.
ApplyChurn(customers, r) ==
  [s \in SegmentSet |->
     Max(0, customers[s] - Binomial(customers[s], ChurnRate(r), Draw(r, SegIndex(s))))]

\* The arguments of the binomial calls of apply_churn, in order.
ChurnCalls(customers, r) ==
  [k \in 1 .. Len(Segments) |->
     [site |-> "churn", n |-> customers[Segments[k]], p |-> ChurnRate(r)]]

Pricing(s) ==
  CASE s = "port"          -> inputs.pricing_port
    [] s = "naval"         -> inputs.pricing_naval
    [] s = "environmental" -> inputs.pricing_environmental
    [] s = "shipping"      -> inputs.pricing_shipping
    [] s = "insurance"     -> inputs.pricing_insurance

\* (1 - competitive_pressure_annual) ** (month / 12) in permille, tabulated
\* for the pressure of 10% a year; 1 when there is no pressure.
ErosionTable ==
  << 1000, 991, 983, 974, 965, 957, 949, 940, 932, 924, 916, 908, 900,
     892, 884, 877, 869, 861, 854, 846, 839, 832, 824, 817, 810, 803 >>

PriceErosion(month) ==
  IF params.competitive_pressure_annual = 0 THEN 1000 ELSE ErosionTable[month + 1]

\* calculate_revenue
CalculateRevenue(customers, month) ==
  MulDiv(SumSeq([k \in 1 .. Len(Segments) |->
                   Pricing(Segments[k]) * customers[Segments[k]]]),
         PriceErosion(month), 1000)

\* calculate_detections: one normal draw around the expected detections.
CalculateDetections(cables, accuracy, u) ==
  LET detections == Trunc(cables * 50 * accuracy, 1000)
  IN  Max(0, Trunc(detections * (10 + ZScore(u)), 10))

\* ------------------------------------------------------------ trial engine

\* profitability_month and failure_month before they are set.
None == -1

\* SimulationOutputs()
EmptyOutputs ==
  [ months                 |-> <<>>,
    cables_deployed        |-> <<>>,
    customers_by_segment   |-> <<>>,
    total_customers        |-> <<>>,
    detection_accuracy     |-> <<>>,
    detections_per_day     |-> <<>>,
    system_uptime          |-> <<>>,
    regional_datacenters   |-> <<>>,
    team_size_total        |-> <<>>,
    team_by_role           |-> <<>>,
    revenue_monthly        |-> <<>>,
    costs_monthly          |-> <<>>,
    costs_breakdown        |-> <<>>,
    gross_margin           |-> <<>>,
    cash_remaining         |-> <<>>,
    arr                    |-> <<>>,
    profitability_achieved |-> FALSE,
    profitability_month    |-> None,
    series_b_qualified     |-> FALSE,
    ran_out_of_cash        |-> FALSE,
    failure_month          |-> None ]

\* The part of a frame that settlement and planning work on.
Stage(f) ==
  [ deployment_queue |-> f.deployment_queue,
    cables_deployed  |-> f.cables_deployed,
    cash             |-> f.cash ]

NoStage == [deployment_queue |-> <<>>, cables_deployed |-> 0, cash |-> 0]

\* A call frame of run_single_simulation that has not been entered.
IdleFrame ==
  [ pc                   |-> "idle",
    seed                 |-> None,
    month                |-> 0,
    cash                 |-> 0,
    cables_deployed      |-> 0,
    customers            |-> [s \in SegmentSet |-> 0],
    new_customers        |-> [s \in SegmentSet |-> 0],
    team_size            |-> 0,
    regional_datacenters |-> 0,
    deployment_queue     |-> <<>>,
    outputs              |-> EmptyOutputs,
    \* history: the arguments of the np.random.binomial calls of the latest month
    binomial_calls       |-> <<>>,
    \* history: the initial capex, and the queue, the cables and the cash of
    \* the latest month before its settlement, after it and after its planning
    initial_capex        |-> 0,
    before_settle        |-> NoStage,
    after_settle         |-> NoStage,
    after_plan           |-> NoStage ]

\* LoopPc with the range one month too long.
LoopPc_OneMore(month) == IF month <= inputs.simulation_months THEN "loop" ELSE "done"

\* The for statement: the loop body runs while months of the range remain.
LoopPc(month) == IF month < inputs.simulation_months THEN "loop" ELSE "done"

\* Reseed with the seed argument ignored.
Reseed_Skipped(seed, r) == r

\* if seed is not None: np.random.seed(seed)
Reseed(seed, r) == IF seed # None THEN SeedState(seed) ELSE r

\* EnterTrial without the initial capex taken from the cash.
EnterTrial_NoInitialCapex(seed, r) ==
  LET r0 == Reseed(seed, r)
      edge_capex == EdgeCapexPerCable(inputs.architecture_option, Draw(r0, 0))
  IN  [ frame |->
          [ IdleFrame EXCEPT
              !.pc = LoopPc(0),
              !.seed = seed,
              !.cash = inputs.series_a_funding - inputs.cloud_credits_secured,
              !.cables_deployed = inputs.initial_cables,
              !.team_size = inputs.initial_team_size,
              !.initial_capex = edge_capex * inputs.initial_cables ],
        rng |-> Advance(r0, 1) ]

\* run_single_simulation up to the loop: the initial state and the initial
\* capex, which costs one draw.
EnterTrial(seed, r) ==
  LET r0 == Reseed(seed, r)
      edge_capex == EdgeCapexPerCable(inputs.architecture_option, Draw(r0, 0))
  IN  [ frame |->
          [ IdleFrame EXCEPT
              !.pc = LoopPc(0),
              !.seed = seed,
              !.cash = inputs.series_a_funding - inputs.cloud_credits_secured
                         - edge_capex * inputs.initial_cables,
              !.cables_deployed = inputs.initial_cables,
              !.team_size = inputs.initial_team_size,
              !.initial_capex = edge_capex * inputs.initial_cables ],
        rng |-> Advance(r0, 1) ]

\* Settle popping an entry only once its month has passed.
Settle_Strict(f) ==
  LET due(e) == f.month > e.deploy_month
      pending(e) == ~due(e)
  IN  [ f EXCEPT !.cables_deployed = @ + Len(SelectSeq(f.deployment_queue, due)),
                 !.deployment_queue = SelectSeq(@, pending) ]

\* Settle popping at most one due entry a month, the first.
Settle_OnePerMonth(f) ==
  LET due(e) == f.month >= e.deploy_month
      q == f.deployment_queue
      dueIdx == {j \in 1 .. Len(q) : due(q[j])}
      first == CHOOSE j \in dueIdx : \A k \in dueIdx : j <= k
  IN  IF dueIdx = {} THEN f
      ELSE [ f EXCEPT !.cables_deployed = @ + 1,
                      !.deployment_queue =
                         SubSeq(q, 1, first - 1) \o SubSeq(q, first + 1, Len(q)) ]

\* Settle charging the capital cost of an entry again when it is popped.
Settle_ChargeAtActivation(f) ==
  LET due(e) == f.month >= e.deploy_month
      pending(e) == ~due(e)
      popped == SelectSeq(f.deployment_queue, due)
  IN  [ f EXCEPT !.cables_deployed = @ + Len(popped),
                 !.deployment_queue = SelectSeq(@, pending),
                 !.cash = @ - SumSeq([j \in 1 .. Len(popped) |-> popped[j].capex]) ]

\* Process deployment queue: every entry that is due is popped and counted.
Settle(f) ==
  LET due(e) == f.month >= e.deploy_month
      pending(e) == ~due(e)
  IN  [ f EXCEPT !.cables_deployed = @ + Len(SelectSeq(f.deployment_queue, due)),
                 !.deployment_queue = SelectSeq(@, pending) ]

\* The month's target from the checkpoint schedule.
TargetCables(month) ==
  IF month >= 18 THEN inputs.target_cables_month_18
  ELSE IF month >= 12 THEN inputs.target_cables_month_12
  ELSE IF month >= 6 THEN inputs.target_cables_month_6
  ELSE inputs.initial_cables

\* CablesToDeploy forgetting the cables already on order.
CablesToDeploy_IgnoreQueue(f) ==
  TargetCables(f.month) - f.cables_deployed

\* cables_to_deploy = target_cables - cables_deployed - len(deployment_queue)
CablesToDeploy(f) ==
  TargetCables(f.month) - f.cables_deployed - Len(f.deployment_queue)

\* month + int(deployment_time) for a lead-time draw of level u.
DeployMonth(month, u) ==
  month + Trunc(Normal(params.cable_deployment_time_months_mean,
                       params.cable_deployment_time_months_std, u), 10)

\* The entries one month's planning appends: two draws each, the lead time and
\* then the capex.  enqueued is a history field: the month of the append.
NewEntries(f, r) ==
  [ j \in 1 .. CablesToDeploy(f) |->
      [ deploy_month |-> DeployMonth(f.month, Draw(r, 2 * (j - 1))),
        capex        |-> EdgeCapexPerCable(inputs.architecture_option,
                                           Draw(r, 2 * (j - 1) + 1)),
        enqueued     |-> f.month ] ]

\* Plan taking cables out of service when the target is below the count.
Plan_Decommission(f, r) ==
  LET new == NewEntries(f, r)
  IN  [ f EXCEPT !.deployment_queue = @ \o new,
                 !.cash = @ - SumSeq([j \in 1 .. Len(new) |-> new[j].capex]),
                 !.cables_deployed =
                    IF CablesToDeploy(f) < 0 THEN Max(0, @ + CablesToDeploy(f))
                    ELSE @ ]

\* Plan new deployments: the shortfall is enqueued and paid upfront.
Plan(f, r) ==
  LET new == NewEntries(f, r)
  IN  [ f EXCEPT !.deployment_queue = @ \o new,
                 !.cash = @ - SumSeq([j \in 1 .. Len(new) |-> new[j].capex]) ]

\* DatacenterTrigger without the check that no datacenter exists yet.
DatacenterTrigger_EveryMonth(f) ==
  IF /\ inputs.architecture_option = "B"
     /\ f.cables_deployed >= 8
  THEN [f EXCEPT !.regional_datacenters = 1, !.cash = @ - 2000000]
  ELSE f

\* Regional datacenter decision.
DatacenterTrigger(f) ==
  IF /\ inputs.architecture_option = "B"
     /\ f.cables_deployed >= 8
     /\ f.regional_datacenters = 0
  THEN [f EXCEPT !.regional_datacenters = 1, !.cash = @ - 2000000]
  ELSE f

\* ClampAccuracy without its lower bound.
ClampAccuracy_UpperOnly(x) == Min(1000, x)

ClampAccuracy(x) == Max(800, Min(1000, x))
ClampUptime(x) == Max(900, Min(1000, x))

\* TeamGrowth without the month > 0 guard.
TeamGrowth_AtMonthZero(team_size, month) ==
  IF month % 6 = 0
  THEN Trunc(team_size * inputs.team_growth_rate, 100)
  ELSE team_size

\* TeamGrowth applied in every month after the first.
TeamGrowth_EveryMonth(team_size, month) ==
  IF month > 0
  THEN Trunc(team_size * inputs.team_growth_rate, 100)
  ELSE team_size

\* if month > 0 and month % 6 == 0: team_size = int(team_size * rate)
TeamGrowth(team_size, month) ==
  IF month > 0 /\ month % 6 = 0
  THEN Trunc(team_size * inputs.team_growth_rate, 100)
  ELSE team_size

\* (revenue - total_costs) / revenue if revenue > 0 else -1, as a fraction.
GrossMargin(revenue, total_costs) ==
  IF revenue > 0 THEN [num |-> revenue - total_costs, den |-> revenue]
  ELSE [num |-> -1, den |-> 1]

\* gross_margin > tenths / 10
MarginAbove(gm, tenths) == 10 * gm.num > tenths * gm.den

\* Snapshot leaving the ARR of a month that ends out of cash unrecorded.
Snapshot_NoArrOnFailure(out, f, m) ==
  [ out EXCEPT
      !.cables_deployed      = Append(@, f.cables_deployed),
      !.customers_by_segment = Append(@, f.customers),
      !.total_customers      = Append(@, SumSeq([k \in 1 .. Len(Segments) |->
                                                   f.customers[Segments[k]]])),
      !.detection_accuracy   = Append(@, m.detection_accuracy),
      !.detections_per_day   = Append(@, m.detections),
      !.system_uptime        = Append(@, m.system_uptime),
      !.regional_datacenters = Append(@, f.regional_datacenters),
      !.team_size_total      = Append(@, f.team_size),
      !.team_by_role         = Append(@, m.team_breakdown),
      !.revenue_monthly      = Append(@, m.revenue),
      !.costs_monthly        = Append(@, m.total_costs),
      !.costs_breakdown      = Append(@, m.costs_breakdown),
      !.gross_margin         = Append(@, GrossMargin(m.revenue, m.total_costs)),
      !.cash_remaining       = Append(@, f.cash),
      !.arr                  = IF f.cash < 0 THEN @ ELSE Append(@, m.revenue * 12) ]

\* Record outputs: one snapshot appended to every per-month sequence.
Snapshot(out, f, m) ==
  [ out EXCEPT
      !.cables_deployed      = Append(@, f.cables_deployed),
      !.customers_by_segment = Append(@, f.customers),
      !.total_customers      = Append(@, SumSeq([k \in 1 .. Len(Segments) |->
                                                   f.customers[Segments[k]]])),
      !.detection_accuracy   = Append(@, m.detection_accuracy),
      !.detections_per_day   = Append(@, m.detections),
      !.system_uptime        = Append(@, m.system_uptime),
      !.regional_datacenters = Append(@, f.regional_datacenters),
      !.team_size_total      = Append(@, f.team_size),
      !.team_by_role         = Append(@, m.team_breakdown),
      !.revenue_monthly      = Append(@, m.revenue),
      !.costs_monthly        = Append(@, m.total_costs),
      !.costs_breakdown      = Append(@, m.costs_breakdown),
      !.gross_margin         = Append(@, GrossMargin(m.revenue, m.total_costs)),
      !.cash_remaining       = Append(@, f.cash),
      !.arr                  = Append(@, m.revenue * 12) ]

\* CheckProfitability without the check that the flag is not set yet.
CheckProfitability_Latest(out, month, revenue, total_costs) ==
  IF /\ MarginAbove(GrossMargin(revenue, total_costs), 7)
     /\ revenue > total_costs
  THEN [out EXCEPT !.profitability_achieved = TRUE, !.profitability_month = month]
  ELSE out

\* Check for profitability: flagged at the first qualifying month only.
CheckProfitability(out, month, revenue, total_costs) ==
  IF /\ ~out.profitability_achieved
     /\ MarginAbove(GrossMargin(revenue, total_costs), 7)
     /\ revenue > total_costs
  THEN [out EXCEPT !.profitability_achieved = TRUE, !.profitability_month = month]
  ELSE out

\* CheckSeriesB recording whether the month qualifies, not whether any did.
CheckSeriesB_Current(out, revenue, total_costs, cables_deployed) ==
  [out EXCEPT !.series_b_qualified =
                 /\ revenue * 12 > 30000000
                 /\ MarginAbove(GrossMargin(revenue, total_costs), 6)
                 /\ cables_deployed >= 15]

\* Check for Series B qualification.
CheckSeriesB(out, revenue, total_costs, cables_deployed) ==
  IF /\ revenue * 12 > 30000000
     /\ MarginAbove(GrossMargin(revenue, total_costs), 6)
     /\ cables_deployed >= 15
  THEN [out EXCEPT !.series_b_qualified = TRUE]
  ELSE out

\* CheckFailure recording the month after the failing one.
CheckFailure_MonthAfter(f) ==
  IF f.cash < 0
  THEN [ f EXCEPT !.outputs.ran_out_of_cash = TRUE,
                  !.outputs.failure_month = f.month + 1,
                  !.pc = "done" ]
  ELSE [ f EXCEPT !.month = @ + 1, !.pc = LoopPc(f.month + 1) ]

\* Check for failure: out of cash, the flag and the month are recorded and
\* the loop is left; otherwise the for statement takes the next month.
CheckFailure(f) ==
  IF f.cash < 0
  THEN [ f EXCEPT !.outputs.ran_out_of_cash = TRUE,
                  !.outputs.failure_month = f.month,
                  !.pc = "done" ]
  ELSE [ f EXCEPT !.month = @ + 1, !.pc = LoopPc(f.month + 1) ]

\* CostTeamSize read after the month's growth step.
CostTeamSize_AfterGrowth(f) == TeamGrowth(f.team_size, f.month)

\* The team size that get_team_costs and the sales and marketing estimate
\* are handed: team_size as it is before the month's growth step.
CostTeamSize(f) == f.team_size

\* The draws an iteration makes after planning when no draw raises: ten in
\* acquisition, six in churn, one in get_architecture_costs, five in
\* get_team_costs, accuracy, uptime and detections.
DrawsAfterPlanning == 10 + 6 + 1 + 5 + 1 + 1 + 1

\* One iteration of the loop of run_single_simulation on frame f, the
\* generator being in state r: the frame and the generator state it leaves.
MonthBody(f, r) ==
  LET month == f.month
      f1 == Settle(f)
      f2 == Plan(f1, r)
      r2 == Advance(r, 2 * Max(0, CablesToDeploy(f1)))
      f3 == [ DatacenterTrigger(f2) EXCEPT !.before_settle = Stage(f),
                                           !.after_settle = Stage(f1),
                                           !.after_plan = Stage(f2) ]
      cables == f3.cables_deployed
      raising == AcquisitionRaising(month, cables, r2)
  IN  IF raising # {}
      THEN \* ValueError out of np.random.binomial: the call is abandoned
           LET first == CHOOSE k \in 1 .. Len(Segments) :
                          /\ Segments[k] \in raising
                          /\ \A j \in 1 .. (k - 1) : Segments[j] \notin raising
           IN  [ frame |-> [ f3 EXCEPT !.pc = "raised",
                                       !.outputs.months = Append(@, month),
                                       !.binomial_calls =
                                          SubSeq(AcquisitionCalls(month, cables, r2),
                                                 1, first) ],
                 rng   |-> Advance(r2, Len(Segments) + first - 1) ]
      ELSE
        LET new_customers == GetCustomerAcquisition(month, cables, r2)
            r3 == Advance(r2, 10)
            acquired == [s \in SegmentSet |-> f3.customers[s] + new_customers[s]]
            customers == ApplyChurn(acquired, r3)
            r4 == Advance(r3, 6)
            revenue == CalculateRevenue(customers, month)
            infra_opex == TotalOpexMonthly(inputs.architecture_option, cables)
            team_cost == TeamMonthlyCost(CostTeamSize(f3), Advance(r4, 1))
            sales_marketing_cost == 50000 + 5000 * CostTeamSize(f3)
            support_cost == 500 * cables
            total_costs == infra_opex + team_cost + sales_marketing_cost + support_cost
            accuracy == ClampAccuracy(Normal(params.detection_accuracy_mean,
                                             params.detection_accuracy_std,
                                             Draw(r4, 6)))
            uptime == ClampUptime(Normal(params.system_uptime_mean,
                                         params.system_uptime_std, Draw(r4, 7)))
            m == [ detection_accuracy |-> accuracy,
                   system_uptime      |-> uptime,
                   detections         |-> CalculateDetections(cables, accuracy,
                                                              Draw(r4, 8)),
                   team_breakdown     |-> TeamByRole(CostTeamSize(f3)),
                   revenue            |-> revenue,
                   total_costs        |-> total_costs,
                   costs_breakdown    |-> [ infrastructure  |-> infra_opex,
                                            personnel       |-> team_cost,
                                            sales_marketing |-> sales_marketing_cost,
                                            support         |-> support_cost ] ]
            f4 == [ f3 EXCEPT !.customers = customers,
                              !.new_customers = new_customers,
                              !.binomial_calls =
                                 AcquisitionCalls(month, cables, r2)
                                   \o ChurnCalls(acquired, r3),
                              !.cash = @ + revenue - total_costs,
                              !.team_size = TeamGrowth(@, month) ]
            out1 == Snapshot([f4.outputs EXCEPT !.months = Append(@, month)], f4, m)
            out2 == CheckProfitability(out1, month, revenue, total_costs)
            out3 == CheckSeriesB(out2, revenue, total_costs, cables)
        IN  [ frame |-> CheckFailure([f4 EXCEPT !.outputs = out3]),
              rng   |-> Advance(r2, DrawsAfterPlanning) ]

\* run_single_simulation(seed) run from entry to its end with no other call
\* touching the generator in between.
RECURSIVE RunToEnd(_, _)
RunToEnd(f, r) ==
  IF f.pc # "loop" THEN f
  ELSE LET b == MonthBody(f, r) IN RunToEnd(b.frame, b.rng)

RunAlone(seed) ==
  LET e == EnterTrial(seed, 0) IN RunToEnd(e.frame, e.rng)

\* ---------------------------------------------------------------- analysis

\* No call of analyze_results has returned.
NoAnalysis == [status |-> "none"]

\* Rates, means and percentiles are fractions num / den.
Frac(n, d) == [is_none |-> FALSE, num |-> n, den |-> d]

\* avg_months_to_profitability when no trial was profitable.
NoneFrac == [is_none |-> TRUE, num |-> 0, den |-> 1]

\* sum(1 for r in results if r.<flag>)
RECURSIVE CountFlag(_, _)
CountFlag(rs, flag) ==
  IF rs = <<>> THEN 0
  ELSE (IF Head(rs)[flag] THEN 1 ELSE 0) + CountFlag(Tail(rs), flag)

\* profitable_sims = [r for r in results if r.profitability_achieved]
ProfitableSims(rs) ==
  LET achieved(r) == r.profitability_achieved IN SelectSeq(rs, achieved)

\* AvgMonthsToProfit dividing by the number of all trials.
AvgMonthsToProfit_OverAll(rs) ==
  LET ps == ProfitableSims(rs)
  IN  IF ps = <<>> THEN NoneFrac
      ELSE Frac(SumSeq([k \in 1 .. Len(ps) |-> ps[k].profitability_month]), Len(rs))

\* sum(r.profitability_month for r in profitable_sims) / len(profitable_sims)
\* if profitable_sims else None
AvgMonthsToProfit(rs) ==
  LET ps == ProfitableSims(rs)
  IN  IF ps = <<>> THEN NoneFrac
      ELSE Frac(SumSeq([k \in 1 .. Len(ps) |-> ps[k].profitability_month]), Len(ps))

\* FinalIndex taking the value at the nominal horizon.
FinalIndex_AtHorizon(seq) == inputs.simulation_months

\* seq[-1]: the position of the last recorded value.
FinalIndex(seq) == Len(seq)

\* [r.<field>[-1] for r in results if len(r.<field>) > 0]: the position read
\* in each trial that has recorded values, with the trial and its length.
FinalReads(rs, field) ==
  LET recorded == {k \in 1 .. Len(rs) : Len(rs[k][field]) > 0}
      nth(j) == CHOOSE k \in recorded : Cardinality({l \in recorded : l < k}) = j - 1
  IN  [ j \in 1 .. Cardinality(recorded) |->
          [ trial  |-> nth(j),
            field  |-> field,
            index  |-> FinalIndex(rs[nth(j)][field]),
            length |-> Len(rs[nth(j)][field]) ] ]

\* A read within the list; outside it Python raises IndexError.
ReadOk(rd) == rd.index >= 1 /\ rd.index <= rd.length

\* The values the reads deliver.
FinalValues(rs, reads) ==
  [ j \in 1 .. Len(reads) |-> rs[reads[j].trial][reads[j].field][reads[j].index] ]

\* The list in ascending order, as np.median and np.percentile partition it.
Sorted(vals) == LET less(a, b) == a < b IN SortSeq(vals, less)

\* np.mean
Mean(vals) == Frac(SumSeq(vals), Len(vals))

\* np.median: the middle value, or the mean of the two middle values.
Median(vals) ==
  LET a == Sorted(vals)
      n == Len(a)
  IN  IF n % 2 = 1 THEN Frac(2 * a[(n + 1) \div 2], 2)
      ELSE Frac(a[n \div 2] + a[n \div 2 + 1], 2)

\* Percentile taking the lower neighbour instead of interpolating.
Percentile_Lower(vals, q) ==
  LET a == Sorted(vals)
      h == (Len(a) - 1) * q
  IN  Frac(100 * a[h \div 100 + 1], 100)

\* np.percentile(vals, q), linear interpolation between the two neighbours
\* of position (n - 1) * q / 100 of the sorted list.
Percentile(vals, q) ==
  LET a == Sorted(vals)
      n == Len(a)
      h == (n - 1) * q
      lo == h \div 100 + 1
      hi == Min(lo + 1, n)
  IN  Frac(100 * a[lo] + (h % 100) * (a[hi] - a[lo]), 100)

\* The four statistics of one final metric; numpy gives no number for an
\* empty list.
Stats(vals) ==
  IF vals = <<>>
  THEN [mean |-> NoneFrac, median |-> NoneFrac, p10 |-> NoneFrac, p90 |-> NoneFrac]
  ELSE [ mean   |-> Mean(vals),
         median |-> Median(vals),
         p10    |-> Percentile(vals, 10),
         p90    |-> Percentile(vals, 90) ]

\* The final metrics with the SimulationOutputs field each is read from.
FinalMetrics ==
  [ cables_deployed |-> "cables_deployed",
    total_customers |-> "total_customers",
    arr             |-> "arr",
    cash_remaining  |-> "cash_remaining",
    team_size       |-> "team_size_total" ]

\* analyze_results(results).  reads is a history field: the positions read.
AnalyzeResults(rs) ==
  LET num_sims == Len(rs)
      reads == [m \in DOMAIN FinalMetrics |-> FinalReads(rs, FinalMetrics[m])]
      bad == \E m \in DOMAIN FinalMetrics :
               \E j \in 1 .. Len(reads[m]) : ~ReadOk(reads[m][j])
  IN  IF num_sims = 0 THEN [status |-> "ZeroDivisionError"]
      ELSE IF bad THEN [status |-> "IndexError", reads |-> reads]
      ELSE [ status          |-> "ok",
             num_simulations |-> num_sims,
             success_metrics |->
               [ profitability_rate          |->
                   Frac(CountFlag(rs, "profitability_achieved"), num_sims),
                 series_b_qualified_rate     |->
                   Frac(CountFlag(rs, "series_b_qualified"), num_sims),
                 failure_rate                |->
                   Frac(CountFlag(rs, "ran_out_of_cash"), num_sims),
                 avg_months_to_profitability |-> AvgMonthsToProfit(rs) ],
             final_metrics   |->
               [m \in DOMAIN FinalMetrics |-> Stats(FinalValues(rs, reads[m]))],
             reads           |-> reads ]

\* ------------------------------------------------------------------ driver

\* DASMonteCarloSimulator(inputs, params): the arguments are stored as they
\* come.  The generator of a fresh process is in an arbitrary state.
Init ==
  /\ \E sc \in Scenarios : inputs = sc.inputs /\ params = sc.params
  /\ tape \in [0 .. (TapeLen - 1) -> Levels]
  /\ rng \in 0 .. (TapeLen - 1)
  /\ frames = [i \in Trials |-> IdleFrame]
  /\ results = <<>>
  /\ driver = "idle"
  /\ run = 0
  /\ returned = <<>>
  /\ analysis = NoAnalysis

\* run_monte_carlo is called: results = []
CallRunMonteCarlo ==
  /\ driver \in {"idle", "returned"}
  /\ (run + 1) \in Invocations
  /\ driver' = "running"
  /\ run' = run + 1
  /\ results' = <<>>
  /\ frames' = [i \in Trials |-> IdleFrame]
  /\ UNCHANGED <<inputs, params, tape, rng, returned, analysis>>

\* for i in range(num_simulations): self.run_single_simulation(seed=i), up to
\* the first month.
CallSingle(i) ==
  /\ driver = "running"
  /\ Len(results) = i
  /\ frames[i].pc = "idle"
  /\ LET e == EnterTrial(i, rng)
     IN  /\ frames' = [frames EXCEPT ![i] = e.frame]
         /\ rng' = e.rng
  /\ UNCHANGED <<inputs, params, tape, results, driver, run, returned, analysis>>

\* One month of trial i.  An exception leaves run_single_simulation and
\* run_monte_carlo, which catch nothing.
Month(i) ==
  /\ driver = "running"
  /\ frames[i].pc = "loop"
  /\ LET b == MonthBody(frames[i], rng)
     IN  /\ frames' = [frames EXCEPT ![i] = b.frame]
         /\ rng' = b.rng
         /\ driver' = IF b.frame.pc = "raised" THEN "raised" ELSE driver
  /\ UNCHANGED <<inputs, params, tape, results, run, returned, analysis>>

\* return outputs; results.append(outputs)
AppendResult(i) ==
  /\ driver = "running"
  /\ frames[i].pc = "done"
  /\ results' = Append(results, frames[i].outputs)
  /\ frames' = [frames EXCEPT ![i].pc = "appended"]
  /\ UNCHANGED <<inputs, params, tape, rng, driver, run, returned, analysis>>

\* return results
ReturnResults ==
  /\ driver = "running"
  /\ Len(results) = NumSims
  /\ driver' = "returned"
  /\ returned' = Append(returned, results)
  /\ UNCHANGED <<inputs, params, tape, rng, frames, results, run, analysis>>

Next ==
  \/ CallRunMonteCarlo
  \/ \E i \in Trials : CallSingle(i)
  \/ \E i \in Trials : Month(i)
  \/ \E i \in Trials : AppendResult(i)
  \/ ReturnResults

Spec == Init /\ [][Next]_vars

\* ------------------------------------------------- interleaved execution

\* Worker threads of one process each running run_single_simulation(seed=i)
\* with the default parameters and a short horizon: the frames are the calls'
\* own, the generator is the process-wide one.
ParInit ==
  /\ \E sc \in Scenarios :
       /\ sc.params = DefaultParams
       /\ sc.inputs.simulation_months \in 1 .. ParMonths
       /\ inputs = sc.inputs
       /\ params = sc.params
  /\ tape \in [0 .. (TapeLen - 1) -> Levels]
  /\ rng \in 0 .. (TapeLen - 1)
  /\ frames = [i \in Trials |-> IdleFrame]
  /\ results = <<>>
  /\ driver = "running"
  /\ run = 1
  /\ returned = <<>>
  /\ analysis = NoAnalysis

\* run_single_simulation(seed=i) is entered by a worker, in any order.
ParCallSingle(i) ==
  /\ driver = "running"
  /\ frames[i].pc = "idle"
  /\ LET e == EnterTrial(i, rng)
     IN  /\ frames' = [frames EXCEPT ![i] = e.frame]
         /\ rng' = e.rng
  /\ UNCHANGED <<inputs, params, tape, results, driver, run, returned, analysis>>

ParNext ==
  \/ \E i \in Trials : ParCallSingle(i)
  \/ \E i \in Trials : Month(i)

ParSpec == ParInit /\ [][ParNext]_vars

\* ------------------------------------------------- analysis of a batch

\* A SimulationOutputs of len recorded months whose final ARR is v: every
\* sequence ends in its final value and holds other values before it.
SynTrial(len, v, profitable, failed) ==
  [ EmptyOutputs EXCEPT
      !.months                 = [k \in 1 .. len |-> k - 1],
      !.cables_deployed        = [k \in 1 .. len |-> 2 + k],
      !.total_customers        = [k \in 1 .. len |-> 3 * k],
      !.team_size_total        = [k \in 1 .. len |-> IF k >= 2 THEN 7 ELSE 5],
      !.arr                    = [k \in 1 .. len |-> v + 1200 * (len - k)],
      !.cash_remaining         = [k \in 1 .. len |->
                                    IF k = len /\ failed THEN -(v + 50)
                                    ELSE 1000 * (len - k) + v],
      !.profitability_achieved = profitable,
      !.profitability_month    = IF profitable THEN len - 1 ELSE None,
      !.series_b_qualified     = profitable /\ v >= 300,
      !.ran_out_of_cash        = failed,
      !.failure_month          = IF failed THEN len - 1 ELSE None ]

SynTrials ==
  { SynTrial(len, v, profitable, failed) :
      len \in 1 .. MaxTrialLen, v \in {0, 300},
      profitable \in BOOLEAN, failed \in BOOLEAN }

\* Every batch of at most MaxBatch such trials.
SmallBatches == UNION {[1 .. n -> SynTrials] : n \in 0 .. MaxBatch}

\* Orders in which ten trials with the final ARR 0, 100, ..., 900 come.
ArrOrders ==
  { <<1, 2, 3, 4, 5, 6, 7, 8, 9, 10>>,
    <<10, 9, 8, 7, 6, 5, 4, 3, 2, 1>>,
    <<5, 1, 9, 3, 7, 2, 10, 4, 8, 6>> }

\* The batches of ten trials of differing lengths in those orders.
ArrBatches ==
  { [k \in 1 .. 10 |->
       SynTrial(1 + ((k + d) % MaxTrialLen), 100 * (o[k] - 1), FALSE, o[k] = 1)] :
      o \in ArrOrders, d \in 0 .. 1 }

\* analyze_results is handed a list of SimulationOutputs.
AnaInit ==
  /\ inputs = [DefaultInputs EXCEPT !.simulation_months = MaxTrialLen]
  /\ params = DefaultParams
  /\ tape = [c \in 0 .. (TapeLen - 1) |-> 1]
  /\ rng = 0
  /\ frames = [i \in Trials |-> IdleFrame]
  /\ results \in SmallBatches \cup ArrBatches
  /\ driver = "returned"
  /\ run = 1
  /\ returned = <<>>
  /\ analysis = NoAnalysis

\* analysis = analyze_results(results)
Analyze ==
  /\ driver = "returned"
  /\ analysis = NoAnalysis
  /\ analysis' = AnalyzeResults(results)
  /\ UNCHANGED <<inputs, params, tape, rng, frames, results, driver, run, returned>>

AnaNext == Analyze

AnaSpec == AnaInit /\ [][AnaNext]_vars

\* ------------------------------------------------------------ properties

\* Every SimulationOutputs there is: the frames' and the collected ones.
AllOutputs ==
  {frames[i].outputs : i \in Trials}
    \cup {results[k] : k \in 1 .. Len(results)}
    \cup UNION {{returned[a][k] : k \in 1 .. Len(returned[a])} : a \in 1 .. Len(returned)}

\* The outputs run_single_simulation has returned.
ReturnedOutputs ==
  {frames[i].outputs : i \in {j \in Trials : frames[j].pc \in {"done", "appended"}}}
    \cup {results[k] : k \in 1 .. Len(results)}

\* C1 (determinism): any two invocations of run_monte_carlo on the same
\* simulator return identical lists, every trial of the driver ends as
\* run_single_simulation(seed = i) ends when computed from the inputs, the
\* parameters and the seed alone, and the k-th output of a returned list is
\* that of seed k - 1.
C1_Determinism ==
  /\ \A a, b \in 1 .. Len(returned) : returned[a] = returned[b]
  /\ \A i \in Trials :
       frames[i].pc \in {"done", "raised"} => frames[i] = RunAlone(i)
  /\ driver = "returned" =>
       \A k \in 1 .. Len(results) : results[k] = RunAlone(k - 1).outputs

\* Two invocations have returned, with trials of several months that differ
\* from one another.
C1_Witness ==
  /\ Len(returned) = 2
  /\ returned[2][1] # returned[2][2]
  /\ Len(returned[2][1].months) >= 2

\* C2 (terminal consistency): in every outputs object with ran_out_of_cash
\* set, failure_month is the last recorded month and every recorded sequence
\* has failure_month + 1 entries.
C2_TerminalConsistency ==
  \A out \in AllOutputs :
    out.ran_out_of_cash =>
      /\ out.months # <<>>
      /\ out.failure_month = Last(out.months)
      /\ Len(out.months) = out.failure_month + 1
      /\ Len(out.cash_remaining) = out.failure_month + 1
      /\ Len(out.cables_deployed) = out.failure_month + 1

\* A trial ran out of cash after its first month.
C2_Witness ==
  \E k \in 1 .. Len(results) :
    results[k].ran_out_of_cash /\ results[k].failure_month >= 1

\* C3 (monotonic lead time), as claimed: every entry of every deployment
\* queue is scheduled no earlier than the month in which it was enqueued.
C3_MonotonicLeadTime ==
  \A i \in Trials :
    \A j \in 1 .. Len(frames[i].deployment_queue) :
      frames[i].deployment_queue[j].deploy_month
        >= frames[i].deployment_queue[j].enqueued

\* C4, as claimed: in every trial no snapshot follows a month that ended with
\* cash below 0, such a month sets the failure flag and month and ends the
\* trial at once, never more than simulation_months months are recorded, and
\* a trial that has ended, in whatever way, without its cash ever going below
\* 0 has recorded exactly simulation_months snapshots.
C4_StopsAtFirstNegativeCash ==
  \A i \in Trials :
    LET f == frames[i]
        out == f.outputs
        cash == out.cash_remaining
    IN  /\ \A k \in 1 .. (Len(cash) - 1) : cash[k] >= 0
        /\ (cash # <<>> /\ Last(cash) < 0) =>
             /\ out.ran_out_of_cash
             /\ out.failure_month = Len(cash) - 1
             /\ f.pc \in {"done", "appended"}
        /\ out.ran_out_of_cash => (cash # <<>> /\ Last(cash) < 0)
        /\ Len(out.months) <= Max(0, inputs.simulation_months)
        /\ (f.pc \in {"done", "appended", "raised"} /\ ~out.ran_out_of_cash) =>
             Len(cash) = Max(0, inputs.simulation_months)

\* C5, as claimed: every returned trial that ran out of cash has recorded
\* strictly fewer months than the horizon.
C5_StrictlyShorter ==
  \A out \in ReturnedOutputs :
    out.ran_out_of_cash => Len(out.months) < inputs.simulation_months

\* C5, amended: a trial that ran out of cash has recorded failure_month + 1
\* months, which is at most the horizon, and fewer than the horizon exactly
\* when it failed before the last month.
C5_NotLonger ==
  \A out \in AllOutputs :
    out.ran_out_of_cash =>
      /\ Len(out.months) = out.failure_month + 1
      /\ Len(out.months) <= inputs.simulation_months
      /\ (Len(out.months) < inputs.simulation_months
            <=> out.failure_month < inputs.simulation_months - 1)

\* A trial ran out of cash in the last month of the horizon.
C5_Witness ==
  \E out \in ReturnedOutputs :
    /\ out.ran_out_of_cash
    /\ inputs.simulation_months >= 2
    /\ Len(out.months) = inputs.simulation_months

\* The invariant the data model states for SimulationInputs: monetary and
\* count fields are non-negative and the horizon is at least 1.
ValidInputs(inp) ==
  /\ inp.series_a_funding >= 0
  /\ inp.cloud_credits_secured >= 0
  /\ inp.initial_cables >= 0
  /\ inp.target_cables_month_6 >= 0
  /\ inp.target_cables_month_12 >= 0
  /\ inp.target_cables_month_18 >= 0
  /\ inp.pricing_port >= 0
  /\ inp.pricing_naval >= 0
  /\ inp.pricing_environmental >= 0
  /\ inp.pricing_shipping >= 0
  /\ inp.pricing_insurance >= 0
  /\ inp.initial_team_size >= 0
  /\ inp.team_growth_rate >= 0
  /\ inp.simulation_months >= 1

\* C6, as claimed: with a configuration outside the data model's invariant no
\* trial is ever entered and no list of outputs is returned.
C6_InvalidRejected ==
  ~ValidInputs(inputs) =>
    /\ \A i \in Trials : frames[i].pc = "idle"
    /\ results = <<>>
    /\ returned = <<>>

\* C7, as claimed: however the trials' steps are interleaved, a trial that has
\* ended is in the state run_single_simulation(seed = i) reaches on its own.
C7_TrialsIndependent ==
  \A i \in Trials :
    frames[i].pc \in {"done", "raised"} => frames[i] = RunAlone(i)

\* C8, as claimed: run_monte_carlo never ends by an exception, and the list
\* it returns holds NumSims outputs, the k-th that of the trial seeded k - 1.
C8_AlwaysReturnsAll ==
  /\ driver # "raised"
  /\ driver = "returned" =>
       /\ Len(results) = NumSims
       /\ \A k \in 1 .. NumSims : results[k] = RunAlone(k - 1).outputs

\* C9, as claimed: every np.random.binomial call of every trial gets a trial
\* count that is not negative and a probability within [0, 1], so none raises.
C9_BinomialArgumentsValid ==
  \A i \in Trials :
    /\ frames[i].pc # "raised"
    /\ \A j \in 1 .. Len(frames[i].binomial_calls) :
         /\ frames[i].binomial_calls[j].n >= 0
         /\ frames[i].binomial_calls[j].p >= 0
         /\ frames[i].binomial_calls[j].p <= 1000

\* C10 (clamping): every recorded detection accuracy is within [0.8, 1.0],
\* every recorded uptime within [0.9, 1.0], and the churn rate handed to the
\* churn draws of every month within [0, 0.1].
C10_Clamping ==
  /\ \A out \in AllOutputs :
       /\ \A k \in 1 .. Len(out.detection_accuracy) :
            out.detection_accuracy[k] >= 800 /\ out.detection_accuracy[k] <= 1000
       /\ \A k \in 1 .. Len(out.system_uptime) :
            out.system_uptime[k] >= 900 /\ out.system_uptime[k] <= 1000
  /\ \A i \in Trials :
       \A j \in 1 .. Len(frames[i].binomial_calls) :
         frames[i].binomial_calls[j].site = "churn" =>
           /\ frames[i].binomial_calls[j].p >= 0
           /\ frames[i].binomial_calls[j].p <= 100

\* Distributions wide enough to leave all three ranges, and a trial whose
\* record shows the accuracy and uptime clamped at both ends and whose latest
\* churn rate was clamped at 0.1.
C10_Witness ==
  /\ params.detection_accuracy_mean - 2 * params.detection_accuracy_std < 800
  /\ params.system_uptime_mean + 2 * params.system_uptime_std > 1000
  /\ params.churn_rate_monthly_mean + 2 * params.churn_rate_monthly_std > 100
  /\ \E i \in Trials :
       LET out == frames[i].outputs
       IN  /\ \E k \in 1 .. Len(out.detection_accuracy) : out.detection_accuracy[k] = 800
           /\ \E k \in 1 .. Len(out.detection_accuracy) : out.detection_accuracy[k] = 1000
           /\ \E k \in 1 .. Len(out.system_uptime) : out.system_uptime[k] = 900
           /\ \E k \in 1 .. Len(out.system_uptime) : out.system_uptime[k] = 1000
           /\ \E j \in 1 .. Len(frames[i].binomial_calls) :
                /\ frames[i].binomial_calls[j].site = "churn"
                /\ frames[i].binomial_calls[j].p = 100

\* The frames whose trial has started a month, with that month.
Started ==
  {i \in Trials : frames[i].pc # "idle" /\ frames[i].outputs.months # <<>>}

\* The frames whose latest month ran to its end.
Completed == {i \in Started : frames[i].pc # "raised"}

\* C11 (non-negative invariants): with inputs that satisfy the data model's
\* invariant, every recorded cables deployed, every recorded customer count of
\* every segment and every recorded team size is at least 0.
C11_NonNegative ==
  ValidInputs(inputs) =>
    \A out \in AllOutputs :
      /\ \A k \in 1 .. Len(out.cables_deployed) : out.cables_deployed[k] >= 0
      /\ \A k \in 1 .. Len(out.customers_by_segment) :
           \A s \in SegmentSet : out.customers_by_segment[k][s] >= 0
      /\ \A k \in 1 .. Len(out.team_size_total) : out.team_size_total[k] >= 0

\* Valid inputs and a trial that has deployed cables, won customers, lost
\* some to churn and grown its team.
C11_Witness ==
  /\ ValidInputs(inputs)
  /\ \E i \in Trials :
       LET out == frames[i].outputs
           n == Len(out.months)
       IN  /\ n >= 8
           /\ out.cables_deployed[n] > out.cables_deployed[1]
           /\ out.team_size_total[n] > out.team_size_total[1]
           /\ \E k \in 2 .. n : out.total_customers[k] < out.total_customers[k - 1]

\* The three deployment targets equal the initial cable count.
ZeroGrowthTargets ==
  /\ inputs.target_cables_month_6 = inputs.initial_cables
  /\ inputs.target_cables_month_12 = inputs.initial_cables
  /\ inputs.target_cables_month_18 = inputs.initial_cables

\* C12, as claimed: with the targets equal to the initial cables and a team
\* growth rate of zero, every recorded cables deployed and every recorded team
\* size equals its initial value.
C12_ZeroGrowthConstant ==
  (ZeroGrowthTargets /\ inputs.team_growth_rate = 0) =>
    \A out \in AllOutputs :
      /\ \A k \in 1 .. Len(out.cables_deployed) :
           out.cables_deployed[k] = inputs.initial_cables
      /\ \A k \in 1 .. Len(out.team_size_total) :
           out.team_size_total[k] = inputs.initial_team_size

\* C12, amended: with the targets equal to the initial cables every recorded
\* cables deployed equals the initial cables; the recorded team size equals
\* the initial team size in every month when the growth rate is 1.0, and with
\* a growth rate of 0 only in months 0 to 5, being 0 from month 6 on.
C12_ZeroGrowthAmended ==
  ZeroGrowthTargets =>
    \A out \in AllOutputs :
      /\ \A k \in 1 .. Len(out.cables_deployed) :
           out.cables_deployed[k] = inputs.initial_cables
      /\ inputs.team_growth_rate = 100 =>
           \A k \in 1 .. Len(out.team_size_total) :
             out.team_size_total[k] = inputs.initial_team_size
      /\ inputs.team_growth_rate = 0 =>
           \A k \in 1 .. Len(out.team_size_total) :
             out.team_size_total[k] =
               IF k - 1 < 6 THEN inputs.initial_team_size ELSE 0

\* Zero growth with the multiplier 1.0 and a trial that has recorded month 6,
\* where the team growth step has been applied.
C12_Witness ==
  /\ ZeroGrowthTargets
  /\ inputs.team_growth_rate = 100
  /\ inputs.initial_team_size > 0
  /\ \E i \in Trials :
       /\ Len(frames[i].outputs.team_size_total) >= 7
       /\ frames[i].outputs.team_size_total[7] = inputs.initial_team_size

\* C13 (guaranteed failure): a trial whose funding is below its initial
\* capital outlay (no customer brings revenue in month 0) never starts a
\* second month, and once it has ended, in whatever way, it has the failure
\* flag set, failure_month 0 and exactly one recorded month.
C13_GuaranteedFailure ==
  \A i \in Trials :
    LET f == frames[i]
        out == f.outputs
    IN  ( /\ f.pc # "idle"
          /\ inputs.cloud_credits_secured >= 0
          /\ inputs.series_a_funding < f.initial_capex ) =>
          /\ f.month = 0
          /\ f.pc # "loop" =>
               /\ out.ran_out_of_cash
               /\ out.failure_month = 0
               /\ out.months = <<0>>
               /\ Len(out.cash_remaining) = 1
               /\ out.revenue_monthly = <<0>>

\* A trial with positive funding below its initial capex has ended.
C13_Witness ==
  \E i \in Trials :
    /\ frames[i].pc = "done"
    /\ inputs.series_a_funding > 0
    /\ inputs.series_a_funding < frames[i].initial_capex
    /\ frames[i].outputs.ran_out_of_cash

C15_NoDueEntryAtMonthEnd ==
  \A i \in Completed :
    LET q == frames[i].deployment_queue
        m == Last(frames[i].outputs.months)
    IN  \A j \in 1 .. Len(q) : q[j].deploy_month > m

\* C15, amended: right after the settlement of month m the queue holds no
\* entry scheduled for m or earlier, and an entry scheduled for m or earlier
\* that is in the queue at the end of month m was enqueued in month m itself
\* (the settlement of month m + 1 removes it).
C15_DueOnlyIfEnqueuedThisMonth ==
  \A i \in Completed :
    LET q == frames[i].deployment_queue
        a == frames[i].after_settle.deployment_queue
        m == Last(frames[i].outputs.months)
    IN  /\ \A j \in 1 .. Len(a) : a[j].deploy_month > m
        /\ \A j \in 1 .. Len(q) : q[j].deploy_month <= m => q[j].enqueued = m

\* A month ended with two entries in the queue that were enqueued in that
\* month, one with a lead time of 0 and one scheduled for a later month.
C15_Witness ==
  \E i \in Completed :
    LET q == frames[i].deployment_queue
        m == Last(frames[i].outputs.months)
    IN  /\ \E j \in 1 .. Len(q) : q[j].deploy_month = m /\ q[j].enqueued = m
        /\ \E j \in 1 .. Len(q) : q[j].deploy_month > m /\ q[j].enqueued = m

\* C19 (deployment settlement): the settlement of month m removes from the
\* queue every entry scheduled for m or earlier, however many there are, adds
\* exactly their number to cables_deployed, leaves the other entries in the
\* queue as they were and in their order, and leaves the cash as it was.
C19_Settlement ==
  \A i \in Started :
    LET b == frames[i].before_settle
        a == frames[i].after_settle
        m == Last(frames[i].outputs.months)
        idx == 1 .. Len(b.deployment_queue)
        due == {j \in idx : b.deployment_queue[j].deploy_month <= m}
    IN  /\ a.cables_deployed = b.cables_deployed + Cardinality(due)
        /\ Len(a.deployment_queue) = Len(b.deployment_queue) - Cardinality(due)
        /\ \A j \in idx \ due :
             a.deployment_queue[j - Cardinality({k \in due : k < j})]
               = b.deployment_queue[j]
        /\ a.cash = b.cash

\* A settlement has removed several entries at once, from before and from
\* behind an entry it has left in the queue.
C19_Witness ==
  \E i \in Started :
    LET b == frames[i].before_settle.deployment_queue
        a == frames[i].after_settle.deployment_queue
        m == Last(frames[i].outputs.months)
    IN  /\ Len(b) >= Len(a) + 2
        /\ \E j, k, l \in 1 .. Len(b) :
             /\ j < k /\ k < l
             /\ b[j].deploy_month <= m
             /\ b[k].deploy_month > m
             /\ b[l].deploy_month <= m

\* C20 (deployment planning): the target of month m is initial_cables before
\* month 6, target_cables_month_6 in months 6 to 11, target_cables_month_12
\* in months 12 to 17 and target_cables_month_18 from month 18 on; when it
\* exceeds the cables deployed plus the entries queued after settlement,
\* planning appends exactly that many entries, each enqueued in month m, and
\* takes the capital cost of each from the cash; otherwise it leaves the
\* queue and the cash as they were.  It never changes cables_deployed.
C20_Planning ==
  \A i \in Started :
    LET a == frames[i].after_settle
        p == frames[i].after_plan
        m == Last(frames[i].outputs.months)
        target == CASE m < 6              -> inputs.initial_cables
                    [] m >= 6 /\ m < 12   -> inputs.target_cables_month_6
                    [] m >= 12 /\ m < 18  -> inputs.target_cables_month_12
                    [] m >= 18            -> inputs.target_cables_month_18
        shortfall == target - a.cables_deployed - Len(a.deployment_queue)
        old == Len(a.deployment_queue)
    IN  /\ p.cables_deployed = a.cables_deployed
        /\ shortfall > 0 =>
             /\ Len(p.deployment_queue) = old + shortfall
             /\ SubSeq(p.deployment_queue, 1, old) = a.deployment_queue
             /\ \A j \in (old + 1) .. (old + shortfall) :
                  p.deployment_queue[j].enqueued = m
             /\ p.cash = a.cash
                  - SumSeq([j \in 1 .. shortfall |->
                              p.deployment_queue[old + j].capex])
        /\ shortfall <= 0 =>
             /\ p.deployment_queue = a.deployment_queue
             /\ p.cash = a.cash

\* Planning in month 18 or later has appended several entries and paid them.
C20_Witness ==
  \E i \in Started :
    LET a == frames[i].after_settle
        p == frames[i].after_plan
    IN  /\ Last(frames[i].outputs.months) >= 18
        /\ Len(p.deployment_queue) >= Len(a.deployment_queue) + 2
        /\ p.cash < a.cash

\* The final recorded value of every trial of the batch for a final metric.
Terminal(m) ==
  [ k \in 1 .. Len(results) |->
      results[k][FinalMetrics[m]][Len(results[k][FinalMetrics[m]])] ]

\* The trials of the batch that have a flag set.
Flagged(flag) == {k \in 1 .. Len(results) : results[k][flag]}

\* Two fractions are the same number.
SameNumber(x, y) == ~x.is_none /\ ~y.is_none /\ x.num * y.den = y.num * x.den

\* C16 (rates): for a non-empty batch analyze_results returns, and its
\* profitability_rate, series_b_qualified_rate and failure_rate are the number
\* of trials with the flag set over the number of trials, and its
\* avg_months_to_profitability is None when no trial achieved profitability
\* and otherwise the sum of profitability_month over the trials that did,
\* over their number.
C16_Rates ==
  (analysis # NoAnalysis /\ results # <<>>) =>
    /\ analysis.status = "ok"
    /\ analysis.num_simulations = Len(results)
    /\ LET sm == analysis.success_metrics
           n == Len(results)
           profitable == Flagged("profitability_achieved")
       IN  /\ SameNumber(sm.profitability_rate, Frac(Cardinality(profitable), n))
           /\ SameNumber(sm.series_b_qualified_rate,
                         Frac(Cardinality(Flagged("series_b_qualified")), n))
           /\ SameNumber(sm.failure_rate,
                         Frac(Cardinality(Flagged("ran_out_of_cash")), n))
           /\ profitable = {} => sm.avg_months_to_profitability.is_none
           /\ profitable # {} =>
                SameNumber(sm.avg_months_to_profitability,
                           Frac(SumSeq([k \in 1 .. n |->
                                          IF k \in profitable
                                          THEN results[k].profitability_month
                                          ELSE 0]),
                                Cardinality(profitable)))

\* A batch of a profitable trial and an unprofitable, failed one has been
\* analysed, the average months to profitability being above 0.
C16_Witness ==
  /\ analysis # NoAnalysis
  /\ analysis.status = "ok"
  /\ Len(results) >= 2
  /\ Flagged("profitability_achieved") \notin {{}, 1 .. Len(results)}
  /\ Flagged("ran_out_of_cash") \notin {{}, 1 .. Len(results)}
  /\ analysis.success_metrics.avg_months_to_profitability.num > 0

\* C17 (final values): analyze_results reduces a batch of trials of differing
\* lengths without error; in every trial it reads every final metric at the
\* last recorded position, never at or beyond the recorded length, which for
\* a failed trial is the position of its failure month; and every statistic
\* of every final metric is the statistic of those last recorded values.
C17_FinalValues ==
  (analysis # NoAnalysis /\ results # <<>>) =>
    /\ analysis.status = "ok"
    /\ \A m \in DOMAIN FinalMetrics :
         /\ Len(analysis.reads[m]) = Len(results)
         /\ \A j \in 1 .. Len(analysis.reads[m]) :
              LET rd == analysis.reads[m][j]
                  r == results[rd.trial]
              IN  /\ rd.trial = j
                  /\ rd.index = Len(r[FinalMetrics[m]])
                  /\ rd.index <= Len(r.months)
                  /\ r.ran_out_of_cash => rd.index = r.failure_month + 1
         /\ analysis.final_metrics[m] = Stats(Terminal(m))
         /\ SameNumber(analysis.final_metrics[m].mean,
                       Frac(SumSeq(Terminal(m)), Len(results)))

\* A batch of a trial that failed before the horizon and a trial that reached
\* it has been analysed.
C17_Witness ==
  /\ analysis # NoAnalysis
  /\ analysis.status = "ok"
  /\ \E j, k \in 1 .. Len(results) :
       /\ results[j].ran_out_of_cash
       /\ Len(results[j].months) < inputs.simulation_months
       /\ ~results[k].ran_out_of_cash
       /\ Len(results[k].months) = inputs.simulation_months

\* C18 (aggregator correctness): for a batch of ten trials whose final ARR
\* values are 0, 100, ..., 900 in any order, the arr statistics returned are
\* the mean 450, the median 450, the 10th percentile 90 and the 90th
\* percentile 810.
C18_ArrPercentiles ==
  ( /\ analysis # NoAnalysis
    /\ Len(results) = 10
    /\ {Terminal("arr")[k] : k \in 1 .. Len(results)} = {100 * j : j \in 0 .. 9} ) =>
    /\ analysis.status = "ok"
    /\ SameNumber(analysis.final_metrics.arr.mean, Frac(450, 1))
    /\ SameNumber(analysis.final_metrics.arr.median, Frac(450, 1))
    /\ SameNumber(analysis.final_metrics.arr.p10, Frac(90, 1))
    /\ SameNumber(analysis.final_metrics.arr.p90, Frac(810, 1))

\* Such a batch, not in ascending order and of trials of differing lengths,
\* has been analysed.
C18_Witness ==
  /\ analysis # NoAnalysis
  /\ analysis.status = "ok"
  /\ Len(results) = 10
  /\ {Terminal("arr")[k] : k \in 1 .. Len(results)} = {100 * j : j \in 0 .. 9}
  /\ Terminal("arr")[1] > Terminal("arr")[2]
  /\ \E j, k \in 1 .. 10 : Len(results[j].arr) # Len(results[k].arr)

\* The cables deployed that the trigger of each started month has seen: the
\* recorded ones, and those of the latest month when it was abandoned.
CablesSeen(i) ==
  frames[i].outputs.cables_deployed
    \o (IF frames[i].pc = "raised" THEN <<frames[i].cables_deployed>> ELSE <<>>)

\* The datacenter count after the trigger of each started month.
DatacentersSeen(i) ==
  frames[i].outputs.regional_datacenters
    \o (IF frames[i].pc = "raised" THEN <<frames[i].regional_datacenters>> ELSE <<>>)

\* What the latest started month took from the cash between its planning and
\* its revenue and costs.
TriggerDeduction(i) ==
  LET f == frames[i]
      out == f.outputs
  IN  IF f.pc = "raised" THEN f.after_plan.cash - f.cash
      ELSE f.after_plan.cash + Last(out.revenue_monthly) - Last(out.costs_monthly)
             - Last(out.cash_remaining)

ProfitableMonths(out) ==
  { k \in 1 .. Len(out.revenue_monthly) :
      /\ out.revenue_monthly[k] > 0
      /\ 10 * (out.revenue_monthly[k] - out.costs_monthly[k])
           > 7 * out.revenue_monthly[k]
      /\ out.revenue_monthly[k] > out.costs_monthly[k] }

\* C22 (profitability flagged once): the recorded gross margin is
\* (revenue - cost) / revenue when the revenue is positive and the sentinel -1
\* when it is zero; profitability_achieved is set exactly when some recorded
\* month has a gross margin above 0.7 and a revenue above its costs, and
\* profitability_month is then the first such month, whatever the later
\* months are; it is None otherwise.
C22_FlaggedAtFirstOccurrence ==
  \A out \in AllOutputs :
    LET q == ProfitableMonths(out)
    IN  /\ \A k \in 1 .. Len(out.gross_margin) :
             /\ out.revenue_monthly[k] = 0 =>
                  out.gross_margin[k] = [num |-> -1, den |-> 1]
             /\ out.revenue_monthly[k] > 0 =>
                  out.gross_margin[k] =
                    [ num |-> out.revenue_monthly[k] - out.costs_monthly[k],
                      den |-> out.revenue_monthly[k] ]
        /\ out.profitability_achieved <=> q # {}
        /\ q = {} => out.profitability_month = None
        /\ q # {} =>
             \E k \in q : /\ \A j \in q : k <= j
                          /\ out.profitability_month = out.months[k]

\* A trial was flagged in a month after months without revenue, and has since
\* recorded a month that qualifies again and a month that does not.
C22_Witness ==
  \E i \in Completed :
    LET out == frames[i].outputs
        q == ProfitableMonths(out)
        p == out.profitability_month
    IN  /\ out.profitability_achieved
        /\ out.revenue_monthly[1] = 0
        /\ p >= 1
        /\ \E k \in q : k > p + 1
        /\ \E k \in (p + 2) .. Len(out.revenue_monthly) : k \notin q

\* The recorded months of an output with an ARR above 30,000,000, a gross
\* margin above 0.6 and at least 15 cables deployed, by their index.
SeriesBMonths(out) ==
  { k \in 1 .. Len(out.arr) :
      /\ out.arr[k] > 30000000
      /\ out.revenue_monthly[k] > 0
      /\ 10 * (out.revenue_monthly[k] - out.costs_monthly[k])
           > 6 * out.revenue_monthly[k]
      /\ out.cables_deployed[k] >= 15 }

\* C23 (series B records "ever qualified"): the recorded ARR is twelve times
\* the month's revenue, and series_b_qualified is set exactly when at least
\* one recorded month has an ARR above 30,000,000, a gross margin above 0.6
\* and at least 15 cables deployed, whether or not the latest month has.
C23_EverQualified ==
  \A out \in AllOutputs :
    /\ \A k \in 1 .. Len(out.arr) : out.arr[k] = 12 * out.revenue_monthly[k]
    /\ out.series_b_qualified <=> SeriesBMonths(out) # {}

\* A trial qualified in some month and its latest recorded month does not
\* qualify any more.
C23_Witness ==
  \E i \in Completed :
    LET out == frames[i].outputs
        q == SeriesBMonths(out)
    IN  /\ out.series_b_qualified
        /\ q # {}
        /\ Len(out.arr) \notin q
        /\ \E k \in 1 .. Len(out.arr) : k \notin q /\ \A j \in q : k < j

\* The team size in effect when month m (index k = m + 1) begins.
TeamBefore(out, k) ==
  IF k = 1 THEN inputs.initial_team_size ELSE out.team_size_total[k - 1]

\* C24 (team growth): the team size recorded for month m is the previous
\* month's (initial_team_size for month 0) times the growth rate, truncated,
\* when m > 0 and m mod 6 = 0, and the previous month's value unchanged in
\* every other month.
C24_TeamGrowth ==
  \A out \in AllOutputs :
    \A k \in 1 .. Len(out.team_size_total) :
      LET m == k - 1
          prev == TeamBefore(out, k)
      IN  out.team_size_total[k] =
            IF m > 0 /\ m % 6 = 0
            THEN Trunc(prev * inputs.team_growth_rate, 100)
            ELSE prev

\* A team of 5 has grown to 7 in month 6 and to 10 in month 12, each product
\* truncated, and has kept its size in the months between.
C24_Witness ==
  \E i \in Completed :
    LET team == frames[i].outputs.team_size_total
    IN  /\ Len(team) >= 14
        /\ team[6] = 5 /\ team[7] = 7 /\ team[12] = 7 /\ team[13] = 10
        /\ team[14] = 10

\* C25 (customer acquisition): in a month m that ran to its end the number of
\* customers newly acquired in each segment is at least 0 and at most
\* trunc(leads-per-cable x cables deployed x min(1, m / 12)); the ramp
\* min(1, m / 12) never decreases with m and is 1 from month 12 on; in month 0
\* no customer is acquired in any segment and none is recorded.  A month that
\* a draw abandoned has added no customer.
C25_AcquisitionBounds ==
  /\ \A i \in Started \ Completed :
       LET out == frames[i].outputs
       IN  frames[i].customers =
             IF out.customers_by_segment = <<>> THEN [s \in SegmentSet |-> 0]
             ELSE Last(out.customers_by_segment)
  /\ \A m \in 0 .. 24 :
       /\ SalesEffectiveness(m) <= SalesEffectiveness(m + 1)
       /\ m >= 12 => SalesEffectiveness(m) = 12
       /\ m < 12 => SalesEffectiveness(m) < 12
  /\ \A i \in Completed :
       LET out == frames[i].outputs
           m == Last(out.months)
           cables == Last(out.cables_deployed)
           leads(s) == IF m >= 12 THEN LeadsPerCable[s] * cables
                       ELSE (LeadsPerCable[s] * cables * m) \div 12
       IN  (cables >= 0) =>
             /\ \A s \in SegmentSet :
                  /\ frames[i].new_customers[s] >= 0
                  /\ frames[i].new_customers[s] <= leads(s)
             /\ m = 0 =>
                  /\ \A s \in SegmentSet : frames[i].new_customers[s] = 0
                  /\ \A s \in SegmentSet : out.customers_by_segment[1][s] = 0

\* Before month 12 a segment has converted all of its leads, fewer than the
\* leads it has at full sales effectiveness, while another has converted none
\* of the leads it had.
C25_Witness ==
  \E i \in Completed :
    LET out == frames[i].outputs
        m == Last(out.months)
        cables == Last(out.cables_deployed)
        new == frames[i].new_customers
    IN  /\ m >= 1 /\ m < 12
        /\ \E s \in SegmentSet :
             /\ new[s] > 0
             /\ new[s] = (LeadsPerCable[s] * cables * m) \div 12
             /\ new[s] < LeadsPerCable[s] * cables
        /\ \E s \in SegmentSet :
             new[s] = 0 /\ (LeadsPerCable[s] * cables * m) \div 12 > 0

\* What role k of a team of the given size can cost in a month: its head
\* count times a twelfth of its salary under one of the salary variations.
RoleCosts(team_size, k) ==
  { ((Roles[k].salary * (100 + params.salary_variation * (2 * u - 2))) \div 1200)
      * ((team_size * Roles[k].share) \div 100) : u \in Levels }

\* The personnel costs a team of the given size can have: one cost of each
\* of the first k roles.
RECURSIVE PersonnelCosts(_, _)
PersonnelCosts(team_size, k) ==
  IF k = 0 THEN {0}
  ELSE { x + y : x \in PersonnelCosts(team_size, k - 1),
                 y \in RoleCosts(team_size, k) }

\* C26 (step ordering for the team size): the team_by_role breakdown and the
\* sales and marketing cost recorded for month m are those of the team size
\* recorded for month m - 1 (initial_team_size for month 0), the size before
\* month m's growth step, while team_size_total[m] is the size after that
\* step (C24); the personnel cost of the month just recorded is one that a
\* team of the size of month m - 1 can have, and the month's costs are the sum
\* of their breakdown.
C26_CostsBeforeGrowth ==
  /\ \A out \in AllOutputs :
       \A k \in 1 .. Len(out.team_size_total) :
         LET prev == TeamBefore(out, k)
         IN  prev >= 0 =>
               /\ out.team_by_role[k] =
                    [j \in 1 .. Len(Roles) |-> (prev * Roles[j].share) \div 100]
               /\ out.costs_breakdown[k].sales_marketing = 50000 + 5000 * prev
               /\ out.costs_monthly[k] =
                    out.costs_breakdown[k].infrastructure
                      + out.costs_breakdown[k].personnel
                      + out.costs_breakdown[k].sales_marketing
                      + out.costs_breakdown[k].support
  /\ \A i \in Completed :
       LET out == frames[i].outputs
           n == Len(out.team_size_total)
       IN  TeamBefore(out, n) >= 0 =>
             Last(out.costs_breakdown).personnel
               \in PersonnelCosts(TeamBefore(out, n), Len(Roles))

\* Month 6 of a team of 5 is recorded: the team size of the month is 7, its
\* breakdown and its sales and marketing cost are those of 5 people.
C26_Witness ==
  \E i \in Completed :
    LET out == frames[i].outputs
    IN  /\ Len(out.team_size_total) >= 7
        /\ out.team_size_total[6] = 5
        /\ out.team_size_total[7] = 7
        /\ out.team_by_role[7] = <<1, 1, 1, 0, 1>>
        /\ out.costs_breakdown[7].sales_marketing = 75000

\* The initial cables and the checkpoint targets whose month has come by
\* month m.
TargetsReached(m) ==
  {inputs.initial_cables}
    \cup (IF m >= 6 THEN {inputs.target_cables_month_6} ELSE {})
    \cup (IF m >= 12 THEN {inputs.target_cables_month_12} ELSE {})
    \cup (IF m >= 18 THEN {inputs.target_cables_month_18} ELSE {})

\* C27 (committed cables): the recorded cables deployed never decrease from
\* one month to the next, and after the planning of every month, and so at
\* its end, the cables deployed plus the entries queued equal the largest of
\* initial_cables and the targets whose month has come, also when the target
\* of the month is below that of an earlier checkpoint.
C27_CommittedCables ==
  /\ \A out \in AllOutputs :
       \A k \in 2 .. Len(out.cables_deployed) :
         out.cables_deployed[k] >= out.cables_deployed[k - 1]
  /\ \A i \in Started :
       LET f == frames[i]
           m == Last(f.outputs.months)
           committed == f.after_plan.cables_deployed
                          + Len(f.after_plan.deployment_queue)
       IN  /\ committed \in TargetsReached(m)
           /\ \A t \in TargetsReached(m) : t <= committed
           /\ f.cables_deployed + Len(f.deployment_queue) = committed
           /\ i \in Completed => Last(f.outputs.cables_deployed) = f.cables_deployed

\* A month whose target is below the target of the checkpoint before it has
\* ended with the cables of the earlier target deployed.
C27_Witness ==
  \E i \in Completed :
    LET f == frames[i]
        m == Last(f.outputs.months)
    IN  /\ m >= 12
        /\ inputs.target_cables_month_12 < inputs.target_cables_month_6
        /\ f.cables_deployed = inputs.target_cables_month_6
        /\ f.cables_deployed > inputs.initial_cables
        /\ f.deployment_queue = <<>>

\* The capital costs of the entries of a queue that were enqueued in month m.
RECURSIVE CapexEnqueued(_, _)
CapexEnqueued(q, m) ==
  IF q = <<>> THEN 0
  ELSE (IF Head(q).enqueued = m THEN Head(q).capex ELSE 0)
         + CapexEnqueued(Tail(q), m)

\* C28 (cash accounting): the cash recorded for month m is the cash recorded
\* for month m - 1 (funding less cloud credits less the initial capex, one
\* edge unit's capital cost per initial cable, for month 0), less the capital
\* costs of the entries enqueued in month m, less 2,000,000 when the
\* datacenter count went from 0 to 1 in month m, plus the month's revenue,
\* less the month's costs; the entries activated in month m cost nothing.
C28_CashAccounting ==
  \A i \in Completed :
    LET f == frames[i]
        out == f.outputs
        n == Len(out.cash_remaining)
        m == out.months[n]
        prev == IF n = 1
                THEN inputs.series_a_funding - inputs.cloud_credits_secured
                       - f.initial_capex
                ELSE out.cash_remaining[n - 1]
        triggered == /\ out.regional_datacenters[n] = 1
                     /\ (n = 1 \/ out.regional_datacenters[n - 1] = 0)
    IN  /\ \E u \in Levels :
             f.initial_capex =
               inputs.initial_cables
                 * ((EdgeCapexNominal(inputs.architecture_option)
                       * (100 + params.edge_capex_variation * (2 * u - 2))) \div 100)
        /\ out.cash_remaining[n] =
             prev - CapexEnqueued(f.after_plan.deployment_queue, m)
                  - (IF triggered THEN 2000000 ELSE 0)
                  + out.revenue_monthly[n] - out.costs_monthly[n]

\* A month after the first has activated a cable that was paid for when it
\* was enqueued, and has triggered the datacenter.
C28_Witness ==
  \E i \in Completed :
    LET f == frames[i]
        out == f.outputs
        n == Len(out.cash_remaining)
    IN  /\ n >= 2
        /\ Len(f.after_settle.deployment_queue) < Len(f.before_settle.deployment_queue)
        /\ \A j \in 1 .. Len(f.before_settle.deployment_queue) :
             f.before_settle.deployment_queue[j].capex > 0
        /\ out.regional_datacenters[n] = 1
        /\ out.regional_datacenters[n - 1] = 0

\* The monthly edge and cloud opex of one cable under the architecture.
OpexPerCable ==
  CASE inputs.architecture_option = "A" -> 10800 + 4000
    [] inputs.architecture_option = "B" -> 2500 + 4000
    [] inputs.architecture_option = "C" -> 2500 + 15000

MonthlyFields ==
  { "cables_deployed", "customers_by_segment", "total_customers",
    "detection_accuracy", "detections_per_day", "system_uptime",
    "regional_datacenters", "team_size_total", "team_by_role",
    "revenue_monthly", "costs_monthly", "costs_breakdown", "gross_margin",
    "cash_remaining", "arr" }

\* The outputs of the lists run_monte_carlo has returned.
ListedOutputs ==
  UNION {{returned[a][k] : k \in 1 .. Len(returned[a])} : a \in 1 .. Len(returned)}

\* C30 (snapshot coherence): in every SimulationOutputs that a trial has
\* returned, at the horizon or out of cash, months is 0, 1, ..., L - 1 and
\* every other per-month sequence has the length L of months, L being at most
\* the horizon; a trial inside its loop has the same between two months.
C30_SnapshotCoherence ==
  /\ \A out \in ReturnedOutputs \cup ListedOutputs :
       /\ out.months = [k \in 1 .. Len(out.months) |-> k - 1]
       /\ \A fld \in MonthlyFields : Len(out[fld]) = Len(out.months)
       /\ Len(out.months) <= Max(0, inputs.simulation_months)
  /\ \A i \in Trials :
       frames[i].pc = "loop" =>
         /\ frames[i].outputs.months = [k \in 1 .. frames[i].month |-> k - 1]
         /\ \A fld \in MonthlyFields :
              Len(frames[i].outputs[fld]) = frames[i].month

\* A returned list holds a trial that ran out of cash after several months
\* and a trial that reached the horizon.
C30_Witness ==
  \E a \in 1 .. Len(returned) :
    \E k, j \in 1 .. Len(returned[a]) :
      /\ returned[a][k].ran_out_of_cash
      /\ Len(returned[a][k].months) >= 2
      /\ Len(returned[a][k].months) < inputs.simulation_months
      /\ ~returned[a][j].ran_out_of_cash
      /\ Len(returned[a][j].months) = inputs.simulation_months

====
